---------------------------- MODULE Spec2Model ----------------------------
(***************************************************************************)
(* The KernelSU module-development headers as the C preprocessor sees      *)
(* them: four header files of #define directives (the constant/template    *)
(* registry), the translation unit that #includes them, readers that       *)
(* expand the macros, and the SAFE_MALLOC / SAFE_FREE memory macros.       *)
(*                                                                         *)
(* A replacement list is kept as the sequence of its preprocessing tokens, *)
(* each token spelled exactly as in the source (a string literal keeps its *)
(* quotes and escapes); StrLit and IntLit evaluate a token the way the C   *)
(* compiler does.                                                          *)
(***************************************************************************)
EXTENDS Integers, Sequences, FiniteSets, TLC

(***************************************************************************)
(* Directives                                                              *)
(***************************************************************************)
\* #define NAME replacement-list
Def(n, toks) ==
    [kind |-> "define", name |-> n, fn |-> FALSE, params |-> <<>>, body |-> toks]
\* #define NAME(params) replacement-list
DefFn(n, ps, toks) ==
    [kind |-> "define", name |-> n, fn |-> TRUE, params |-> ps, body |-> toks]
\* #ifndef NAME
Ifndef(n) ==
    [kind |-> "ifndef", name |-> n, fn |-> FALSE, params |-> <<>>, body |-> <<>>]
\* #ifdef NAME
Ifdef(n) ==
    [kind |-> "ifdef", name |-> n, fn |-> FALSE, params |-> <<>>, body |-> <<>>]
\* #else
Else ==
    [kind |-> "else", name |-> "", fn |-> FALSE, params |-> <<>>, body |-> <<>>]
\* #endif
Endif ==
    [kind |-> "endif", name |-> "", fn |-> FALSE, params |-> <<>>, body |-> <<>>]
\* #include <system header>: defines none of the names of these headers
SysInclude(n) ==
    [kind |-> "include", name |-> n, fn |-> FALSE, params |-> <<>>, body |-> <<>>]

(***************************************************************************)
(* The four headers, section by section, in source order                   *)
(***************************************************************************)
\* ---- src/src/pyrmm/usr/include/kernelsu-module.h ----
\* Guard open (lines 1-2)
kernelsu_module_h_GuardOpen ==
    << Ifndef("KERNELSU_MODULE_H"),
       Def("KERNELSU_MODULE_H", <<>>) >>
\* KernelSU Environment Variables (lines 11-15)
kernelsu_module_h_KernelSUEnvironmentVariables ==
    << Def("KSU_ENV_VAR", <<"\"KSU\"">>),
       Def("KSU_VERSION_VAR", <<"\"KSU_VER\"">>),
       Def("KSU_VERSION_CODE_VAR", <<"\"KSU_VER_CODE\"">>),
       Def("KSU_KERNEL_VERSION_CODE_VAR", <<"\"KSU_KERNEL_VER_CODE\"">>) >>
\* Magisk Compatibility Variables (lines 17-21)
kernelsu_module_h_MagiskCompatibilityVariables ==
    << Def("MAGISK_VER_CODE_VAR", <<"\"MAGISK_VER_CODE\"">>),
       Def("MAGISK_VER_VAR", <<"\"MAGISK_VER\"">>),
       Def("MAGISK_COMPAT_VER_CODE", <<"\"25200\"">>),
       Def("MAGISK_COMPAT_VER", <<"\"v25.2\"">>) >>
\* Module Paths with BUSYBOX_PATH left under /system/bin.
kernelsu_module_h_ModulePaths_Stale ==
    << Def("MODULES_ROOT", <<"\"/data/adb/modules\"">>),
       Def("KSU_BIN_PATH", <<"\"/data/adb/ksu/bin\"">>),
       Def("BUSYBOX_PATH", <<"\"/system/bin/busybox\"">>) >>
\* Module Paths (lines 23-26)
kernelsu_module_h_ModulePaths ==
    << Def("MODULES_ROOT", <<"\"/data/adb/modules\"">>),
       Def("KSU_BIN_PATH", <<"\"/data/adb/ksu/bin\"">>),
       Def("BUSYBOX_PATH", <<"\"/data/adb/ksu/bin/busybox\"">>) >>
\* Module Files (lines 28-31)
kernelsu_module_h_ModuleFiles ==
    << Def("MODULE_PROP", <<"\"module.prop\"">>),
       Def("SYSTEM_PROP", <<"\"system.prop\"">>),
       Def("SEPOLICY_RULE", <<"\"sepolicy.rule\"">>) >>
\* Script Files (lines 33-39)
kernelsu_module_h_ScriptFiles ==
    << Def("POST_FS_DATA_SCRIPT", <<"\"post-fs-data.sh\"">>),
       Def("POST_MOUNT_SCRIPT", <<"\"post-mount.sh\"">>),
       Def("SERVICE_SCRIPT", <<"\"service.sh\"">>),
       Def("BOOT_COMPLETED_SCRIPT", <<"\"boot-completed.sh\"">>),
       Def("UNINSTALL_SCRIPT", <<"\"uninstall.sh\"">>),
       Def("CUSTOMIZE_SCRIPT", <<"\"customize.sh\"">>) >>
\* Marker Files (lines 41-44)
kernelsu_module_h_MarkerFiles ==
    << Def("SKIP_MOUNT_MARKER", <<"\"skip_mount\"">>),
       Def("DISABLE_MARKER", <<"\"disable\"">>),
       Def("REMOVE_MARKER", <<"\"remove\"">>) >>
\* Directory Names (lines 46-52)
kernelsu_module_h_DirectoryNames ==
    << Def("SYSTEM_DIR", <<"\"system\"">>),
       Def("VENDOR_DIR", <<"\"vendor\"">>),
       Def("PRODUCT_DIR", <<"\"product\"">>),
       Def("SYSTEM_EXT_DIR", <<"\"system_ext\"">>),
       Def("WEBROOT_DIR", <<"\"webroot\"">>),
       Def("META_INF_DIR", <<"\"META-INF\"">>) >>
\* Install Variables (lines 54-61)
kernelsu_module_h_InstallVariables ==
    << Def("BOOTMODE_VAR", <<"\"BOOTMODE\"">>),
       Def("MODPATH_VAR", <<"\"MODPATH\"">>),
       Def("TMPDIR_VAR", <<"\"TMPDIR\"">>),
       Def("ZIPFILE_VAR", <<"\"ZIPFILE\"">>),
       Def("ARCH_VAR", <<"\"ARCH\"">>),
       Def("IS64BIT_VAR", <<"\"IS64BIT\"">>),
       Def("API_VAR", <<"\"API\"">>) >>
\* Architecture Types (lines 63-67)
kernelsu_module_h_ArchitectureTypes ==
    << Def("ARCH_ARM", <<"\"arm\"">>),
       Def("ARCH_ARM64", <<"\"arm64\"">>),
       Def("ARCH_X86", <<"\"x86\"">>),
       Def("ARCH_X64", <<"\"x64\"">>) >>
\* Module Property Keys (lines 69-75)
kernelsu_module_h_ModulePropertyKeys ==
    << Def("PROP_ID", <<"\"id\"">>),
       Def("PROP_NAME", <<"\"name\"">>),
       Def("PROP_VERSION", <<"\"version\"">>),
       Def("PROP_VERSION_CODE", <<"\"versionCode\"">>),
       Def("PROP_AUTHOR", <<"\"author\"">>),
       Def("PROP_DESCRIPTION", <<"\"description\"">>) >>
\* BusyBox Environment (lines 77-79)
kernelsu_module_h_BusyBoxEnvironment ==
    << Def("ASH_STANDALONE_VAR", <<"\"ASH_STANDALONE\"">>),
       Def("ASH_STANDALONE_VALUE", <<"\"1\"">>) >>
\* Install Functions (for shell scripts) (lines 81-85)
kernelsu_module_h_InstallFunctionsForShellScripts ==
    << Def("UI_PRINT_FUNC", <<"\"ui_print\"">>),
       Def("ABORT_FUNC", <<"\"abort\"">>),
       Def("SET_PERM_FUNC", <<"\"set_perm\"">>),
       Def("SET_PERM_RECURSIVE_FUNC", <<"\"set_perm_recursive\"">>) >>
\* Default Permissions (lines 87-91)
kernelsu_module_h_DefaultPermissions ==
    << Def("DEFAULT_DIR_PERM", <<"\"0755\"">>),
       Def("DEFAULT_FILE_PERM", <<"\"0644\"">>),
       Def("DEFAULT_EXEC_PERM", <<"\"0755\"">>),
       Def("DEFAULT_CONTEXT", <<"\"u:object_r:system_file:s0\"">>) >>
\* Common Paths for System Overlay (lines 93-99)
kernelsu_module_h_CommonPathsForSystemOverlay ==
    << Def("SYSTEM_BIN_PATH", <<"\"/system/bin\"">>),
       Def("SYSTEM_LIB_PATH", <<"\"/system/lib\"">>),
       Def("SYSTEM_LIB64_PATH", <<"\"/system/lib64\"">>),
       Def("SYSTEM_ETC_PATH", <<"\"/system/etc\"">>),
       Def("SYSTEM_APP_PATH", <<"\"/system/app\"">>),
       Def("SYSTEM_PRIV_APP_PATH", <<"\"/system/priv-app\"">>) >>
\* WebUI Support (lines 101-103)
kernelsu_module_h_WebUISupport ==
    << Def("WEBUI_INDEX", <<"\"index.html\"">>),
       Def("WEBUI_PORT_DEFAULT", <<"\"8080\"">>) >>
\* Helper Macros (lines 121-124)
kernelsu_module_h_HelperMacros ==
    << Def("MODDIR_VAR", <<"\"${0%/*}\"">>),
       Def("KSU_CHECK", <<"\"[ \\\"$KSU\\\" = \\\"true\\\" ]\"">>),
       Def("MAGISK_CHECK", <<"\"[ \\\"$MAGISK_VER_CODE\\\" != \\\"\\\" ]\"">>) >>
\* Guard close (lines 126-126)
kernelsu_module_h_GuardClose ==
    << Endif >>
kernelsu_module_h ==
    kernelsu_module_h_GuardOpen
    \o kernelsu_module_h_KernelSUEnvironmentVariables
    \o kernelsu_module_h_MagiskCompatibilityVariables
    \o kernelsu_module_h_ModulePaths
    \o kernelsu_module_h_ModuleFiles
    \o kernelsu_module_h_ScriptFiles
    \o kernelsu_module_h_MarkerFiles
    \o kernelsu_module_h_DirectoryNames
    \o kernelsu_module_h_InstallVariables
    \o kernelsu_module_h_ArchitectureTypes
    \o kernelsu_module_h_ModulePropertyKeys
    \o kernelsu_module_h_BusyBoxEnvironment
    \o kernelsu_module_h_InstallFunctionsForShellScripts
    \o kernelsu_module_h_DefaultPermissions
    \o kernelsu_module_h_CommonPathsForSystemOverlay
    \o kernelsu_module_h_WebUISupport
    \o kernelsu_module_h_HelperMacros
    \o kernelsu_module_h_GuardClose

\* ---- src/src/pyrmm/usr/include/shell-utils.h ----
\* Guard open (lines 1-2)
shell_utils_h_GuardOpen ==
    << Ifndef("SHELL_UTILS_H"),
       Def("SHELL_UTILS_H", <<>>) >>
\* Color Definitions for Terminal Output (lines 11-19)
shell_utils_h_ColorDefinitionsForTerminalOutput ==
    << Def("COLOR_RED", <<"'\\033[0;31m'">>),
       Def("COLOR_GREEN", <<"'\\033[0;32m'">>),
       Def("COLOR_YELLOW", <<"'\\033[1;33m'">>),
       Def("COLOR_BLUE", <<"'\\033[0;34m'">>),
       Def("COLOR_PURPLE", <<"'\\033[0;35m'">>),
       Def("COLOR_CYAN", <<"'\\033[0;36m'">>),
       Def("COLOR_WHITE", <<"'\\033[1;37m'">>),
       Def("COLOR_NC", <<"'\\033[0m'">>) >>
\* Logging Functions Template (lines 21-26)
shell_utils_h_LoggingFunctionsTemplate ==
    << Def("LOG_FUNCTIONS", <<"\"log_info() { echo -e \\\"\\\\033[0;34m[INFO]\\\\033[0m $1\\\"; }\\n\"", "\"log_success() { echo -e \\\"\\\\033[0;32m[SUCCESS]\\\\033[0m $1\\\"; }\\n\"", "\"log_warning() { echo -e \\\"\\\\033[1;33m[WARNING]\\\\033[0m $1\\\"; }\\n\"", "\"log_error() { echo -e \\\"\\\\033[0;31m[ERROR]\\\\033[0m $1\\\"; }\\n\"">>) >>
\* Common Shell Patterns (lines 28-31)
shell_utils_h_CommonShellPatterns ==
    << Def("MODDIR_DETECTION", <<"\"MODDIR=${0%/*}\"">>),
       Def("BUSYBOX_SETUP", <<"\"export PATH=\\\"/data/adb/ksu/bin:$PATH\\\"\"">>),
       Def("ASH_STANDALONE_SETUP", <<"\"export ASH_STANDALONE=1\"">>) >>
\* File Permission Helpers (lines 33-36)
shell_utils_h_FilePermissionHelpers ==
    << Def("SET_EXEC_PERM", <<"\"chmod 755\"">>),
       Def("SET_READ_PERM", <<"\"chmod 644\"">>),
       Def("SET_DIR_PERM", <<"\"chmod 755\"">>) >>
\* Common Check Functions with the last line of CHECK_ROOT lost.
shell_utils_h_CommonCheckFunctions_Unclosed ==
    << Def("CHECK_ROOT", <<"\"check_root() {\\n\"", "\"    if [ \\\"$(id -u)\\\" != \\\"0\\\" ]; then\\n\"", "\"        log_error \\\"This script must be run as root\\\"\\n\"", "\"        exit 1\\n\"", "\"    fi\\n\"">>),
       Def("CHECK_KERNELSU", <<"\"check_kernelsu() {\\n\"", "\"    if [ \\\"$KSU\\\" != \\\"true\\\" ]; then\\n\"", "\"        log_error \\\"This script requires KernelSU\\\"\\n\"", "\"        exit 1\\n\"", "\"    fi\\n\"", "\"}\\n\"">>),
       Def("WAIT_FOR_BOOT", <<"\"wait_for_boot() {\\n\"", "\"    while [ \\\"$(getprop sys.boot_completed)\\\" != \\\"1\\\" ]; do\\n\"", "\"        sleep 1\\n\"", "\"    done\\n\"", "\"}\\n\"">>) >>
\* Common Check Functions (lines 38-60)
shell_utils_h_CommonCheckFunctions ==
    << Def("CHECK_ROOT", <<"\"check_root() {\\n\"", "\"    if [ \\\"$(id -u)\\\" != \\\"0\\\" ]; then\\n\"", "\"        log_error \\\"This script must be run as root\\\"\\n\"", "\"        exit 1\\n\"", "\"    fi\\n\"", "\"}\\n\"">>),
       Def("CHECK_KERNELSU", <<"\"check_kernelsu() {\\n\"", "\"    if [ \\\"$KSU\\\" != \\\"true\\\" ]; then\\n\"", "\"        log_error \\\"This script requires KernelSU\\\"\\n\"", "\"        exit 1\\n\"", "\"    fi\\n\"", "\"}\\n\"">>),
       Def("WAIT_FOR_BOOT", <<"\"wait_for_boot() {\\n\"", "\"    while [ \\\"$(getprop sys.boot_completed)\\\" != \\\"1\\\" ]; do\\n\"", "\"        sleep 1\\n\"", "\"    done\\n\"", "\"}\\n\"">>) >>
\* Property Manipulation (lines 62-65)
shell_utils_h_PropertyManipulation ==
    << Def("RESET_PROP", <<"\"resetprop\"">>),
       Def("GET_PROP", <<"\"getprop\"">>),
       Def("SET_PROP_SAFE", <<"\"resetprop -n\"">>) >>
\* File System Operations (lines 67-70)
shell_utils_h_FileSystemOperations ==
    << Def("MOUNT_RO", <<"\"mount -o remount,ro\"">>),
       Def("MOUNT_RW", <<"\"mount -o remount,rw\"">>),
       Def("CREATE_WHITEOUT", <<"\"mknod\"">>) >>
\* SELinux Helpers (lines 72-75)
shell_utils_h_SELinuxHelpers ==
    << Def("SELINUX_ENFORCING", <<"\"getenforce\"">>),
       Def("SELINUX_PERMISSIVE", <<"\"setenforce 0\"">>),
       Def("SELINUX_RESTORE", <<"\"restorecon\"">>) >>
\* Network Utilities (lines 77-81)
shell_utils_h_NetworkUtilities ==
    << Def("CHECK_INTERNET", <<"\"check_internet() {\\n\"", "\"    ping -c 1 8.8.8.8 >/dev/null 2>&1\\n\"", "\"}\\n\"">>) >>
\* Package Manager Detection (lines 83-93)
shell_utils_h_PackageManagerDetection ==
    << Def("DETECT_PM", <<"\"detect_pm() {\\n\"", "\"    if command -v pm >/dev/null 2>&1; then\\n\"", "\"        echo \\\"pm\\\"\\n\"", "\"    elif command -v cmd >/dev/null 2>&1; then\\n\"", "\"        echo \\\"cmd package\\\"\\n\"", "\"    else\\n\"", "\"        echo \\\"unknown\\\"\\n\"", "\"    fi\\n\"", "\"}\\n\"">>) >>
\* Service Management (lines 95-98)
shell_utils_h_ServiceManagement ==
    << Def("START_SERVICE", <<"\"start\"">>),
       Def("STOP_SERVICE", <<"\"stop\"">>),
       Def("RESTART_SERVICE", <<"\"restart\"">>) >>
\* Archive Operations (lines 100-103)
shell_utils_h_ArchiveOperations ==
    << Def("EXTRACT_ZIP", <<"\"unzip -o\"">>),
       Def("EXTRACT_TAR", <<"\"tar -xf\"">>),
       Def("CREATE_ZIP", <<"\"zip -r\"">>) >>
\* Download Utilities (lines 105-107)
shell_utils_h_DownloadUtilities ==
    << Def("WGET_CMD", <<"\"wget -O\"">>),
       Def("CURL_CMD", <<"\"curl -L -o\"">>) >>
\* Text Processing (lines 109-112)
shell_utils_h_TextProcessing ==
    << Def("GREP_QUIET", <<"\"grep -q\"">>),
       Def("SED_INPLACE", <<"\"sed -i\"">>),
       Def("AWK_FIELD", <<"\"awk '{print $1}'\"">>) >>
\* Guard close (lines 114-114)
shell_utils_h_GuardClose ==
    << Endif >>
shell_utils_h ==
    shell_utils_h_GuardOpen
    \o shell_utils_h_ColorDefinitionsForTerminalOutput
    \o shell_utils_h_LoggingFunctionsTemplate
    \o shell_utils_h_CommonShellPatterns
    \o shell_utils_h_FilePermissionHelpers
    \o shell_utils_h_CommonCheckFunctions
    \o shell_utils_h_PropertyManipulation
    \o shell_utils_h_FileSystemOperations
    \o shell_utils_h_SELinuxHelpers
    \o shell_utils_h_NetworkUtilities
    \o shell_utils_h_PackageManagerDetection
    \o shell_utils_h_ServiceManagement
    \o shell_utils_h_ArchiveOperations
    \o shell_utils_h_DownloadUtilities
    \o shell_utils_h_TextProcessing
    \o shell_utils_h_GuardClose

\* ---- src/src/pyrmm/usr/local/include/local-config.h ----
\* Guard open (lines 9-10)
local_config_h_GuardOpen ==
    << Ifndef("_KERNELSU_LOCAL_CONFIG_H"),
       Def("_KERNELSU_LOCAL_CONFIG_H", <<>>) >>
\* Local development path configuration (lines 13-19)
local_config_h_LocalDevelopmentPathConfiguration ==
    << Def("LOCAL_DEV_ROOT", <<"\"/usr/local/share/kernelsu-dev\"">>),
       Def("LOCAL_TEMPLATES_DIR", <<"\"/usr/local/share/kernelsu-dev/templates\"">>),
       Def("LOCAL_EXAMPLES_DIR", <<"\"/usr/local/share/kernelsu-dev/examples\"">>),
       Def("LOCAL_DOCS_DIR", <<"\"/usr/local/share/kernelsu-dev/docs\"">>),
       Def("LOCAL_TOOLS_DIR", <<"\"/usr/local/bin\"">>),
       Def("LOCAL_CONFIG_DIR", <<"\"/usr/local/etc\"">>) >>
\* Local cache configuration (lines 22-25)
local_config_h_LocalCacheConfiguration ==
    << Def("LOCAL_CACHE_DIR", <<"\"${HOME}/.cache/kernelsu-dev\"">>),
       Def("LOCAL_TEMP_DIR", <<"\"/tmp/kernelsu-dev\"">>),
       Def("LOCAL_LOG_DIR", <<"\"${HOME}/.local/share/kernelsu-dev/logs\"">>) >>
\* Project configuration file names (lines 28-32)
local_config_h_ProjectConfigurationFileNames ==
    << Def("PROJECT_CONFIG_FILE", <<"\".kernelsu-project\"">>),
       Def("BUILD_CONFIG_FILE", <<"\"build.conf\"">>),
       Def("MODULE_CONFIG_FILE", <<"\"module.prop\"">>),
       Def("WEBUI_CONFIG_FILE", <<"\"webui.conf\"">>) >>
\* Development tools configuration (lines 35-39)
local_config_h_DevelopmentToolsConfiguration ==
    << Def("EDITOR_CONFIG_FILE", <<"\".editorconfig\"">>),
       Def("VSCODE_CONFIG_DIR", <<"\".vscode\"">>),
       Def("GIT_CONFIG_FILE", <<"\".gitignore\"">>),
       Def("LINT_CONFIG_FILE", <<"\".shellcheckrc\"">>) >>
\* Local environment variables (lines 42-46)
local_config_h_LocalEnvironmentVariables ==
    << Def("ENV_KERNELSU_DEV_ROOT", <<"\"KERNELSU_DEV_ROOT\"">>),
       Def("ENV_MODULE_DEV_MODE", <<"\"MODULE_DEV_MODE\"">>),
       Def("ENV_DEBUG_ENABLED", <<"\"DEBUG_ENABLED\"">>),
       Def("ENV_VERBOSE_OUTPUT", <<"\"VERBOSE_OUTPUT\"">>) >>
\* Development mode flags with the fifth flag written 0x16 for sixteen.
local_config_h_DevelopmentModeFlags_Decimal16 ==
    << Def("DEV_MODE_STRICT", <<"0x01">>),
       Def("DEV_MODE_DEBUG", <<"0x02">>),
       Def("DEV_MODE_VERBOSE", <<"0x04">>),
       Def("DEV_MODE_LINT", <<"0x08">>),
       Def("DEV_MODE_TEST", <<"0x16">>) >>
\* Development mode flags (lines 49-54)
local_config_h_DevelopmentModeFlags ==
    << Def("DEV_MODE_STRICT", <<"0x01">>),
       Def("DEV_MODE_DEBUG", <<"0x02">>),
       Def("DEV_MODE_VERBOSE", <<"0x04">>),
       Def("DEV_MODE_LINT", <<"0x08">>),
       Def("DEV_MODE_TEST", <<"0x10">>) >>
\* Local build configuration (lines 57-65)
local_config_h_LocalBuildConfiguration ==
    << Def("BUILD_TYPE_DEBUG", <<"\"debug\"">>),
       Def("BUILD_TYPE_RELEASE", <<"\"release\"">>),
       Def("BUILD_TYPE_TEST", <<"\"test\"">>),
       Def("ARCH_ARM", <<"\"arm\"">>),
       Def("ARCH_ARM64", <<"\"arm64\"">>),
       Def("ARCH_X86", <<"\"x86\"">>),
       Def("ARCH_X86_64", <<"\"x86_64\"">>) >>
\* Default editor commands (lines 68-72)
local_config_h_DefaultEditorCommands ==
    << Def("EDITOR_VSCODE", <<"\"code\"">>),
       Def("EDITOR_VIM", <<"\"vim\"">>),
       Def("EDITOR_NANO", <<"\"nano\"">>),
       Def("EDITOR_EMACS", <<"\"emacs\"">>) >>
\* Local service configuration (lines 75-79)
local_config_h_LocalServiceConfiguration ==
    << Def("WEBUI_DEFAULT_PORT", <<"8080">>),
       Def("WEBUI_DEFAULT_HOST", <<"\"localhost\"">>),
       Def("API_DEFAULT_PORT", <<"8081">>),
       Def("DOCS_DEFAULT_PORT", <<"8082">>) >>
\* File extensions (lines 82-87)
local_config_h_FileExtensions ==
    << Def("EXT_MODULE", <<"\".zip\"">>),
       Def("EXT_SCRIPT", <<"\".sh\"">>),
       Def("EXT_CONFIG", <<"\".conf\"">>),
       Def("EXT_TEMPLATE", <<"\".template\"">>),
       Def("EXT_BACKUP", <<"\".bak\"">>) >>
\* Permission configuration (lines 90-94)
local_config_h_PermissionConfiguration ==
    << Def("PERM_EXECUTABLE", <<"0755">>),
       Def("PERM_READABLE", <<"0644">>),
       Def("PERM_CONFIG", <<"0600">>),
       Def("PERM_DIRECTORY", <<"0755">>) >>
\* Guard close (lines 96-96)
local_config_h_GuardClose ==
    << Endif >>
local_config_h ==
    local_config_h_GuardOpen
    \o local_config_h_LocalDevelopmentPathConfiguration
    \o local_config_h_LocalCacheConfiguration
    \o local_config_h_ProjectConfigurationFileNames
    \o local_config_h_DevelopmentToolsConfiguration
    \o local_config_h_LocalEnvironmentVariables
    \o local_config_h_DevelopmentModeFlags
    \o local_config_h_LocalBuildConfiguration
    \o local_config_h_DefaultEditorCommands
    \o local_config_h_LocalServiceConfiguration
    \o local_config_h_FileExtensions
    \o local_config_h_PermissionConfiguration
    \o local_config_h_GuardClose

\* ---- src/src/pyrmm/usr/local/include/dev-utils.h ----
\* Guard open (lines 9-16)
dev_utils_h_GuardOpen ==
    << Ifndef("_DEV_UTILS_H"),
       Def("_DEV_UTILS_H", <<>>),
       SysInclude("<stdio.h>"),
       SysInclude("<stdlib.h>"),
       SysInclude("<string.h>"),
       SysInclude("<errno.h>"),
       SysInclude("<time.h>") >>
\* Debug output macros (lines 19-25)
dev_utils_h_DebugOutputMacros ==
    << Ifdef("DEBUG"),
       DefFn("DEBUG_PRINT", <<"fmt", "...">>, <<"fprintf", "(", "stderr", ",", "\"[DEBUG] %s:%d: \"", "fmt", "\"\\n\"", ",", "__FILE__", ",", "__LINE__", ",", "##", "__VA_ARGS__", ")">>),
       Else,
       DefFn("DEBUG_PRINT", <<"fmt", "...">>, <<"do", "{", "}", "while", "(", "0", ")">>),
       Endif >>
\* Error handling macros (lines 28-36)
dev_utils_h_ErrorHandlingMacros ==
    << DefFn("ERROR_PRINT", <<"fmt", "...">>, <<"fprintf", "(", "stderr", ",", "\"[ERROR] %s:%d: \"", "fmt", "\"\\n\"", ",", "__FILE__", ",", "__LINE__", ",", "##", "__VA_ARGS__", ")">>),
       DefFn("WARN_PRINT", <<"fmt", "...">>, <<"fprintf", "(", "stderr", ",", "\"[WARN] %s:%d: \"", "fmt", "\"\\n\"", ",", "__FILE__", ",", "__LINE__", ",", "##", "__VA_ARGS__", ")">>),
       DefFn("INFO_PRINT", <<"fmt", "...">>, <<"printf", "(", "\"[INFO] \"", "fmt", "\"\\n\"", ",", "##", "__VA_ARGS__", ")">>) >>
\* Memory management macros (lines 39-63)
dev_utils_h_MemoryManagementMacros ==
    << DefFn("SAFE_FREE", <<"ptr">>, <<"do", "{", "if", "(", "ptr", ")", "{", "free", "(", "ptr", ")", ";", "ptr", "=", "NULL", ";", "}", "}", "while", "(", "0", ")">>),
       DefFn("SAFE_MALLOC", <<"size">>, <<"(", "{", "void", "*", "ptr", "=", "malloc", "(", "size", ")", ";", "if", "(", "!", "ptr", ")", "{", "ERROR_PRINT", "(", "\"Memory allocation failed\"", ")", ";", "exit", "(", "EXIT_FAILURE", ")", ";", "}", "ptr", ";", "}", ")">>),
       DefFn("SAFE_STRDUP", <<"str">>, <<"(", "{", "char", "*", "new_str", "=", "strdup", "(", "str", ")", ";", "if", "(", "!", "new_str", ")", "{", "ERROR_PRINT", "(", "\"String duplication failed\"", ")", ";", "exit", "(", "EXIT_FAILURE", ")", ";", "}", "new_str", ";", "}", ")">>) >>
\* String operation macros (lines 66-74)
dev_utils_h_StringOperationMacros ==
    << DefFn("STR_EMPTY", <<"str">>, <<"(", "!", "str", "||", "!", "*", "str", ")">>),
       DefFn("STR_EQUAL", <<"str1", "str2">>, <<"(", "strcmp", "(", "str1", ",", "str2", ")", "==", "0", ")">>),
       DefFn("STR_START_WITH", <<"str", "prefix">>, <<"(", "strncmp", "(", "str", ",", "prefix", ",", "strlen", "(", "prefix", ")", ")", "==", "0", ")">>),
       DefFn("STR_END_WITH", <<"str", "suffix">>, <<"(", "{", "size_t", "str_len", "=", "strlen", "(", "str", ")", ";", "size_t", "suffix_len", "=", "strlen", "(", "suffix", ")", ";", "str_len", ">=", "suffix_len", "&&", "strcmp", "(", "str", "+", "str_len", "-", "suffix_len", ",", "suffix", ")", "==", "0", ";", "}", ")">>) >>
\* Array operation macros (lines 77-80)
dev_utils_h_ArrayOperationMacros ==
    << DefFn("ARRAY_SIZE", <<"arr">>, <<"(", "sizeof", "(", "arr", ")", "/", "sizeof", "(", "(", "arr", ")", "[", "0", "]", ")", ")">>),
       DefFn("ARRAY_FOREACH", <<"arr", "var">>, <<"for", "(", "var", "=", "arr", ";", "var", "<", "arr", "+", "ARRAY_SIZE", "(", "arr", ")", ";", "var", "++", ")">>) >>
\* File operation macros (lines 83-87)
dev_utils_h_FileOperationMacros ==
    << DefFn("FILE_EXISTS", <<"path">>, <<"(", "access", "(", "path", ",", "F_OK", ")", "==", "0", ")">>),
       DefFn("FILE_READABLE", <<"path">>, <<"(", "access", "(", "path", ",", "R_OK", ")", "==", "0", ")">>),
       DefFn("FILE_WRITABLE", <<"path">>, <<"(", "access", "(", "path", ",", "W_OK", ")", "==", "0", ")">>),
       DefFn("FILE_EXECUTABLE", <<"path">>, <<"(", "access", "(", "path", ",", "X_OK", ")", "==", "0", ")">>) >>
\* Time operation macros (lines 90-97)
dev_utils_h_TimeOperationMacros ==
    << DefFn("TIMESTAMP", <<>>, <<"(", "{", "time_t", "t", "=", "time", "(", "NULL", ")", ";", "struct", "tm", "*", "tm", "=", "localtime", "(", "&", "t", ")", ";", "static", "char", "buf", "[", "64", "]", ";", "strftime", "(", "buf", ",", "sizeof", "(", "buf", ")", ",", "\"%Y-%m-%d %H:%M:%S\"", ",", "tm", ")", ";", "buf", ";", "}", ")">>) >>
\* Color output macros (terminal) (lines 100-116)
dev_utils_h_ColorOutputMacrosTerminal ==
    << Def("COLOR_RESET", <<"\"\\033[0m\"">>),
       Def("COLOR_RED", <<"\"\\033[31m\"">>),
       Def("COLOR_GREEN", <<"\"\\033[32m\"">>),
       Def("COLOR_YELLOW", <<"\"\\033[33m\"">>),
       Def("COLOR_BLUE", <<"\"\\033[34m\"">>),
       Def("COLOR_MAGENTA", <<"\"\\033[35m\"">>),
       Def("COLOR_CYAN", <<"\"\\033[36m\"">>),
       Def("COLOR_WHITE", <<"\"\\033[37m\"">>),
       DefFn("COLORED_PRINT", <<"color", "fmt", "...">>, <<"printf", "(", "color", "fmt", "COLOR_RESET", "\"\\n\"", ",", "##", "__VA_ARGS__", ")">>),
       DefFn("SUCCESS_PRINT", <<"fmt", "...">>, <<"COLORED_PRINT", "(", "COLOR_GREEN", ",", "fmt", ",", "##", "__VA_ARGS__", ")">>),
       DefFn("ERROR_COLORED_PRINT", <<"fmt", "...">>, <<"COLORED_PRINT", "(", "COLOR_RED", ",", "fmt", ",", "##", "__VA_ARGS__", ")">>),
       DefFn("WARNING_PRINT", <<"fmt", "...">>, <<"COLORED_PRINT", "(", "COLOR_YELLOW", ",", "fmt", ",", "##", "__VA_ARGS__", ")">>),
       DefFn("INFO_COLORED_PRINT", <<"fmt", "...">>, <<"COLORED_PRINT", "(", "COLOR_BLUE", ",", "fmt", ",", "##", "__VA_ARGS__", ")">>) >>
\* Conditional compilation macros (lines 119-126)
dev_utils_h_ConditionalCompilationMacros ==
    << Ifdef("ANDROID"),
       Def("PLATFORM_ANDROID", <<"1">>),
       Def("PLATFORM_LINUX", <<"0">>),
       Else,
       Def("PLATFORM_ANDROID", <<"0">>),
       Def("PLATFORM_LINUX", <<"1">>),
       Endif >>
\* Utility function declarations (lines 129-156)
dev_utils_h_UtilityFunctionDeclarations ==
    << Ifdef("__cplusplus"),
       Endif,
       Ifdef("__cplusplus"),
       Endif >>
\* Guard close (lines 158-158)
dev_utils_h_GuardClose ==
    << Endif >>
dev_utils_h ==
    dev_utils_h_GuardOpen
    \o dev_utils_h_DebugOutputMacros
    \o dev_utils_h_ErrorHandlingMacros
    \o dev_utils_h_MemoryManagementMacros
    \o dev_utils_h_StringOperationMacros
    \o dev_utils_h_ArrayOperationMacros
    \o dev_utils_h_FileOperationMacros
    \o dev_utils_h_TimeOperationMacros
    \o dev_utils_h_ColorOutputMacrosTerminal
    \o dev_utils_h_ConditionalCompilationMacros
    \o dev_utils_h_UtilityFunctionDeclarations
    \o dev_utils_h_GuardClose

(***************************************************************************)
(* The preprocessor                                                        *)
(***************************************************************************)
HeaderFiles == {"kernelsu-module.h", "shell-utils.h", "local-config.h", "dev-utils.h"}

Header(h) ==
    CASE h = "kernelsu-module.h" -> kernelsu_module_h
      [] h = "shell-utils.h"     -> shell_utils_h
      [] h = "local-config.h"    -> local_config_h
      [] h = "dev-utils.h"       -> dev_utils_h

\* The include guard of a header: the name its first directive tests.
Guard(h) == Header(h)[1].name

\* The macro a #define directive binds its name to.
MacroOf(d) == [fn |-> d.fn, params |-> d.params, body |-> d.body]

\* #define: bind the name, replacing an earlier binding.
Define(tbl, d) == (d.name :> MacroOf(d)) @@ tbl

\* A #define of a name already bound to a different macro (C11 6.10.3p2).
Conflicts(tbl, d) == d.name \in DOMAIN tbl /\ tbl[d.name] # MacroOf(d)

\* #ifndef that opens its group whatever NAME is: a guard that never guards.
IfndefTaken_Always(tbl, n) == TRUE

\* #ifndef NAME opens its group when NAME is not a macro.
IfndefTaken(tbl, n) == n \notin DOMAIN tbl

\* #ifdef NAME opens its group when NAME is a macro.
IfdefTaken(tbl, n) == n \in DOMAIN tbl

\* #else that never opens its group.
ElseTaken_Never(top) == FALSE

\* #else opens its group when the #if group was not taken.
ElseTaken(top) == ~top.taken

\* Every enclosing conditional group is being processed.
Active(conds) == \A i \in 1..Len(conds) : conds[i].active

\* One directive, on the preprocessor state [tbl, conds, conflicts].
ProcessDirective(st, d) ==
    CASE d.kind \in {"ifndef", "ifdef"} ->
           LET t == IF d.kind = "ifndef" THEN IfndefTaken(st.tbl, d.name)
                                         ELSE IfdefTaken(st.tbl, d.name)
           IN  [st EXCEPT !.conds =
                   Append(@, [active |-> Active(st.conds) /\ t, taken |-> t])]
      [] d.kind = "else" ->
           LET n   == Len(st.conds)
               top == st.conds[n]
           IN  [st EXCEPT !.conds[n] =
                   [active |-> Active(SubSeq(st.conds, 1, n - 1)) /\ ElseTaken(top),
                    taken  |-> TRUE]]
      [] d.kind = "endif" ->
           [st EXCEPT !.conds = SubSeq(@, 1, Len(@) - 1)]
      [] d.kind = "define" ->
           IF Active(st.conds)
           THEN [st EXCEPT !.tbl = Define(st.tbl, d),
                           !.conflicts =
                               IF Conflicts(st.tbl, d) THEN @ \cup {d.name} ELSE @]
           ELSE st
      [] OTHER -> st

\* The directives of a file, in order.
RECURSIVE ProcessFile(_, _, _)
ProcessFile(st, ds, i) ==
    IF i > Len(ds) THEN st
    ELSE LET s2 == ProcessDirective(st, ds[i])
         IN  IF Len(s2.conds) >= 0 /\ DOMAIN s2.tbl # {"#"}
             THEN ProcessFile(s2, ds, i + 1)
             ELSE s2

\* #include "h" with macro table tbl.
IncludeFile(tbl, h) ==
    ProcessFile([tbl |-> tbl, conds |-> <<>>, conflicts |-> {}], Header(h), 1)

\* Macros given on the compiler's command line (-DDEBUG, -DANDROID).
CommandLineMacros == {"DEBUG", "ANDROID"}
Predefined(S) ==
    [n \in S |-> [fn |-> FALSE, params |-> <<>>, body |-> <<"1">>]]

(***************************************************************************)
(* Evaluating tokens                                                       *)
(***************************************************************************)
Digits == "0123456789abcdef"

RECURSIVE IndexOf(_, _, _)
IndexOf(c, s, i) ==
    IF i > Len(s) THEN 0
    ELSE IF SubSeq(s, i, i) = c THEN i ELSE IndexOf(c, s, i + 1)

Lower(c) ==
    CASE c = "A" -> "a" [] c = "B" -> "b" [] c = "C" -> "c"
      [] c = "D" -> "d" [] c = "E" -> "e" [] c = "F" -> "f"
      [] OTHER -> c

\* The value of digit character c; -1 when c is no digit.
DigitVal(c) == IndexOf(Lower(c), Digits, 1) - 1

\* The digits s[i..] read in the given base, continuing from acc.
RECURSIVE ParseBase(_, _, _, _)
ParseBase(s, i, base, acc) ==
    IF i > Len(s) THEN acc
    ELSE ParseBase(s, i + 1, base, acc * base + DigitVal(SubSeq(s, i, i)))

\* An integer constant whose leading 0 is not taken for octal.
IntLit_NoOctal(tok) ==
    IF Len(tok) > 2 /\ SubSeq(tok, 1, 2) \in {"0x", "0X"} THEN ParseBase(tok, 3, 16, 0)
    ELSE ParseBase(tok, 1, 10, 0)

\* A C integer constant: 0x.. is hexadecimal, 0.. octal, anything else decimal.
IntLit(tok) ==
    IF Len(tok) > 2 /\ SubSeq(tok, 1, 2) \in {"0x", "0X"} THEN ParseBase(tok, 3, 16, 0)
    ELSE IF Len(tok) > 1 /\ SubSeq(tok, 1, 1) = "0" THEN ParseBase(tok, 2, 8, 0)
    ELSE ParseBase(tok, 1, 10, 0)

IsStringLiteral(tok) ==
    Len(tok) >= 2 /\ SubSeq(tok, 1, 1) = "\"" /\ SubSeq(tok, Len(tok), Len(tok)) = "\""

\* The characters s[i..n] with the simple escapes \n \" \\ \' replaced.  An
\* octal escape (\033) stays spelled out: a string here cannot hold the
\* control character.
RECURSIVE Unescape(_, _, _)
Unescape(s, i, n) ==
    IF i > n THEN ""
    ELSE IF SubSeq(s, i, i) = "\\" /\ i < n
         THEN LET e == SubSeq(s, i + 1, i + 1)
              IN  CASE e = "n"  -> "\n" \o Unescape(s, i + 2, n)
                    [] e = "\"" -> "\"" \o Unescape(s, i + 2, n)
                    [] e = "\\" -> "\\" \o Unescape(s, i + 2, n)
                    [] e = "'"  -> "'"  \o Unescape(s, i + 2, n)
                    [] OTHER    -> "\\" \o Unescape(s, i + 1, n)
         ELSE SubSeq(s, i, i) \o Unescape(s, i + 1, n)

\* The characters a string-literal token denotes.
StrLit(tok) == Unescape(tok, 2, Len(tok) - 1)

\* Adjacent string literals are concatenated (translation phase 6).
RECURSIVE StringValue(_, _)
StringValue(toks, i) ==
    IF i > Len(toks) THEN ""
    ELSE StrLit(toks[i]) \o StringValue(toks, i + 1)

RECURSIVE BitAnd(_, _)
BitAnd(a, b) ==
    IF a = 0 \/ b = 0 THEN 0
    ELSE (a % 2) * (b % 2) + 2 * BitAnd(a \div 2, b \div 2)

RECURSIVE BitOr(_, _)
BitOr(a, b) ==
    IF a = 0 THEN b
    ELSE IF b = 0 THEN a
    ELSE (IF a % 2 = 1 \/ b % 2 = 1 THEN 1 ELSE 0) + 2 * BitOr(a \div 2, b \div 2)

(***************************************************************************)
(* Reading the registry                                                    *)
(***************************************************************************)
\* lookup(name): the macro's replacement list, or NotFoundError.
lookup(tbl, name) ==
    IF name \in DOMAIN tbl
    THEN [ok |-> TRUE,  value |-> tbl[name].body, err |-> "none"]
    ELSE [ok |-> FALSE, value |-> <<>>,           err |-> "NotFoundError"]

\* resolveTemplate(name, {}): the text the template's string literals denote.
resolveTemplate(tbl, name) ==
    IF name \notin DOMAIN tbl
    THEN [ok |-> FALSE, value |-> "", err |-> "NotFoundError"]
    ELSE IF \A i \in 1..Len(tbl[name].body) : IsStringLiteral(tbl[name].body[i])
    THEN [ok |-> TRUE,  value |-> StringValue(tbl[name].body, 1), err |-> "none"]
    ELSE [ok |-> FALSE, value |-> "", err |-> "TemplateError"]

TemplateNames ==
    {"LOG_FUNCTIONS", "CHECK_ROOT", "CHECK_KERNELSU", "WAIT_FOR_BOOT",
     "CHECK_INTERNET", "DETECT_PM"}

\* The sections of the headers that make up each value group.
Group(g) ==
    CASE g = "permissions" ->
           << [hdr |-> "kernelsu-module.h", sect |-> kernelsu_module_h_DefaultPermissions],
              [hdr |-> "local-config.h", sect |-> local_config_h_PermissionConfiguration] >>
      [] g = "colors" ->
           << [hdr |-> "shell-utils.h", sect |-> shell_utils_h_ColorDefinitionsForTerminalOutput],
              [hdr |-> "dev-utils.h", sect |-> dev_utils_h_ColorOutputMacrosTerminal] >>
      [] g = "paths" ->
           << [hdr |-> "kernelsu-module.h", sect |-> kernelsu_module_h_ModulePaths],
              [hdr |-> "kernelsu-module.h", sect |-> kernelsu_module_h_CommonPathsForSystemOverlay] >>
      [] g = "property_keys" ->
           << [hdr |-> "kernelsu-module.h", sect |-> kernelsu_module_h_ModulePropertyKeys] >>
      [] g = "dev_mode_flags" ->
           << [hdr |-> "local-config.h", sect |-> local_config_h_DevelopmentModeFlags] >>

GroupNames == {"permissions", "colors", "paths", "property_keys", "dev_mode_flags"}

\* The (name, value) pairs a section of #define directives binds.
RECURSIVE Bindings(_, _)
Bindings(ds, i) ==
    IF i > Len(ds) THEN <<>>
    ELSE IF ds[i].kind = "define" /\ ~ds[i].fn
         THEN <<[name |-> ds[i].name, value |-> ds[i].body]>> \o Bindings(ds, i + 1)
         ELSE Bindings(ds, i + 1)

\* enumerate(group): the bindings of the group's sections, in source order,
\* of the headers that have been included.
RECURSIVE EnumerateFrom(_, _, _)
EnumerateFrom(tbl, parts, i) ==
    IF i > Len(parts) THEN <<>>
    ELSE (IF Guard(parts[i].hdr) \in DOMAIN tbl
          THEN Bindings(parts[i].sect, 1) ELSE <<>>)
         \o EnumerateFrom(tbl, parts, i + 1)

enumerate(tbl, g) == EnumerateFrom(tbl, Group(g), 1)

(***************************************************************************)
(* The memory macros                                                       *)
(***************************************************************************)
NULL == 0
MaxBlocks == 3
Blocks == 1..MaxBlocks
PtrVars == {"p", "q"}

\* free(b): releasing a block that is not allocated is a double free.
free(m, b) ==
    [m EXCEPT !.heap[b] = IF @ = "allocated" THEN "freed" ELSE "double-freed",
              !.freeCalls[b] = @ + 1]

\* SAFE_FREE that frees and leaves the pointer as it was.
SAFE_FREE_NoReset(m, v) ==
    IF m.ptr[v] # NULL
    THEN free(m, m.ptr[v])
    ELSE m

\* SAFE_FREE(ptr): do { if (ptr) { free(ptr); ptr = NULL; } } while(0)
SAFE_FREE(m, v) ==
    IF m.ptr[v] # NULL
    THEN [free(m, m.ptr[v]) EXCEPT !.ptr[v] = NULL]
    ELSE m

\* SAFE_MALLOC(size) assigned to v; r is what malloc returned.
SAFE_MALLOC(m, v, r) ==
    IF r = NULL
    THEN [m EXCEPT !.exited = TRUE]
    ELSE [m EXCEPT !.heap[r] = "allocated", !.ptr[v] = r]

(***************************************************************************)
(* State                                                                   *)
(***************************************************************************)
NumReaders == 2
Readers == 1..NumReaders

LookupNames ==
    {"MODULES_ROOT", "COLOR_RED", "PERM_DIRECTORY", "DEBUG_PRINT", "does-not-exist"}
ProbedTemplates == {"CHECK_ROOT", "LOG_FUNCTIONS", "DETECT_PM"}
ProbedGroups == {"permissions", "colors", "dev_mode_flags"}

VARIABLES
    macros,     \* the macro table of the translation unit
    conflicts,  \* names #defined again with a different replacement list
    werror,     \* the build treats a diagnosed redefinition as an error
    halted,     \* translation was abandoned
    last,       \* the latest call of a reader and what it returned
    mem,        \* pointer variables, heap blocks and calls of free
    lastOp      \* the memory macro executed last, and its pointer before

vars == <<macros, conflicts, werror, halted, last, mem, lastOp>>
regVars == <<macros, conflicts, werror, halted, last>>
memVars == <<mem, lastOp>>

AllIncluded == \A h \in HeaderFiles : Guard(h) \in DOMAIN macros

NoCall ==
    [reader |-> 0, op |-> "none", arg |-> "", res |-> [ok |-> FALSE], init |-> FALSE]

Init ==
    /\ \E S \in SUBSET CommandLineMacros : macros = Predefined(S)
    /\ conflicts = {}
    /\ werror \in BOOLEAN
    /\ halted = FALSE
    /\ last = NoCall
    /\ mem = [ptr |-> [v \in PtrVars |-> NULL],
              heap |-> [b \in Blocks |-> "unused"],
              freeCalls |-> [b \in Blocks |-> 0],
              exited |-> FALSE]
    /\ lastOp = [op |-> "none", var |-> "p", before |-> NULL]

\* #include "h" in the translation unit.
Include(h) ==
    /\ ~halted
    /\ LET st == IncludeFile(macros, h)
       IN  /\ conflicts' = conflicts \cup st.conflicts
           /\ IF werror /\ st.conflicts # {}
              THEN halted' = TRUE /\ macros' = macros
              ELSE halted' = FALSE /\ macros' = st.tbl
    /\ UNCHANGED <<werror, last, memVars>>

Lookup(r, n) ==
    /\ ~halted
    /\ last' = [reader |-> r, op |-> "lookup", arg |-> n,
                res |-> lookup(macros, n), init |-> AllIncluded]
    /\ UNCHANGED <<macros, conflicts, werror, halted, memVars>>

ResolveTemplate(r, n) ==
    /\ ~halted
    /\ last' = [reader |-> r, op |-> "resolveTemplate", arg |-> n,
                res |-> resolveTemplate(macros, n), init |-> AllIncluded]
    /\ UNCHANGED <<macros, conflicts, werror, halted, memVars>>

Enumerate(r, g) ==
    /\ ~halted
    /\ last' = [reader |-> r, op |-> "enumerate", arg |-> g,
                res |-> [ok |-> TRUE, value |-> enumerate(macros, g), err |-> "none"],
                init |-> AllIncluded]
    /\ UNCHANGED <<macros, conflicts, werror, halted, memVars>>

Next ==
    \/ \E h \in HeaderFiles : Include(h)
    \/ \E r \in Readers, n \in LookupNames : Lookup(r, n)
    \/ \E r \in Readers, n \in ProbedTemplates : ResolveTemplate(r, n)
    \/ \E r \in Readers, g \in ProbedGroups : Enumerate(r, g)

Spec == Init /\ [][Next]_vars

\* v = SAFE_MALLOC(size): malloc returns the next unused block, or NULL.
SafeMalloc(v) ==
    /\ ~mem.exited
    /\ \E r \in {NULL} \cup {b \in Blocks : mem.heap[b] = "unused"
                                          /\ \A c \in 1..(b - 1) : mem.heap[c] # "unused"} :
           mem' = SAFE_MALLOC(mem, v, r)
    /\ lastOp' = [op |-> "SAFE_MALLOC", var |-> v, before |-> mem.ptr[v]]
    /\ UNCHANGED regVars

\* SAFE_FREE(v)
SafeFree(v) ==
    /\ ~mem.exited
    /\ mem' = SAFE_FREE(mem, v)
    /\ lastOp' = [op |-> "SAFE_FREE", var |-> v, before |-> mem.ptr[v]]
    /\ UNCHANGED regVars

MemInit ==
    /\ Init
    /\ macros = Predefined({})
    /\ werror = FALSE

MemNext ==
    \/ \E v \in PtrVars : SafeMalloc(v)
    \/ \E v \in PtrVars : SafeFree(v)

SpecMem == MemInit /\ [][MemNext]_vars

(***************************************************************************)
(* Properties                                                              *)
(***************************************************************************)
Included(h) == Guard(h) \in DOMAIN macros

\* The characters the string literals of macro n denote.
StrOf(n) == StringValue(macros[n].body, 1)
\* The value of the integer constant macro n expands to.
IntOf(n) == IntLit(macros[n].body[1])
\* A string of digits read in the given base, as chmod or a port parser reads it.
ReadNumber(s, base) == ParseBase(s, 1, base, 0)

Documented ==
    [MODULES_ROOT        |-> "/data/adb/modules",
     KSU_BIN_PATH        |-> "/data/adb/ksu/bin",
     BUSYBOX_PATH        |-> "/data/adb/ksu/bin/busybox",
     KSU_ENV_VAR         |-> "KSU",
     KSU_VERSION_VAR     |-> "KSU_VER",
     MAGISK_VER_CODE_VAR |-> "MAGISK_VER_CODE",
     MODULE_PROP         |-> "module.prop",
     POST_FS_DATA_SCRIPT |-> "post-fs-data.sh",
     SERVICE_SCRIPT      |-> "service.sh",
     CUSTOMIZE_SCRIPT    |-> "customize.sh",
     SEPOLICY_RULE       |-> "sepolicy.rule",
     PROP_ID             |-> "id",
     PROP_NAME           |-> "name",
     PROP_VERSION        |-> "version",
     PROP_VERSION_CODE   |-> "versionCode",
     PROP_AUTHOR         |-> "author",
     PROP_DESCRIPTION    |-> "description",
     DEFAULT_DIR_PERM    |-> "0755",
     DEFAULT_FILE_PERM   |-> "0644"]

\* C1: once kernelsu-module.h is included, lookup of every documented key
\* succeeds and returns one string literal denoting exactly the documented
\* characters, whatever else has been included.
C1_LookupReturnsDocumentedLiteral ==
    Included("kernelsu-module.h") =>
        \A k \in DOMAIN Documented :
            LET r == lookup(macros, k)
            IN  /\ r.ok
                /\ Len(r.value) = 1
                /\ IsStringLiteral(r.value[1])
                /\ StringValue(r.value, 1) = Documented[k]

\* A reader looked MODULES_ROOT up in the complete registry and got the
\* documented path.
C1_Witness ==
    /\ AllIncluded
    /\ last.op = "lookup" /\ last.arg = "MODULES_ROOT" /\ last.res.ok
    /\ StringValue(last.res.value, 1) = "/data/adb/modules"

\* C2: every name maps to one value: no #define binds a name that is
\* already bound to a different replacement list.
C2_OneValuePerName == conflicts = {}

FlagNames ==
    {"DEV_MODE_STRICT", "DEV_MODE_DEBUG", "DEV_MODE_VERBOSE", "DEV_MODE_LINT",
     "DEV_MODE_TEST"}

RECURSIVE OrAll(_)
OrAll(S) ==
    IF S = {} THEN 0
    ELSE LET f == CHOOSE x \in S : TRUE
         IN  BitOr(IntOf(f), OrAll(S \ {f}))

RECURSIVE BitCount(_)
BitCount(a) == IF a = 0 THEN 0 ELSE (a % 2) + BitCount(a \div 2)

\* C3: once local-config.h is included, each dev-mode flag has exactly one
\* bit set, no two flags share a bit, and the OR of any set S of flags
\* contains flag f exactly when f is in S.
C3_DevModeFlagsIndependent ==
    Included("local-config.h") =>
        /\ \A f \in FlagNames : BitCount(IntOf(f)) = 1
        /\ \A f, g \in FlagNames : f # g => BitAnd(IntOf(f), IntOf(g)) = 0
        /\ \A S \in SUBSET FlagNames : \A f \in FlagNames :
               (BitAnd(OrAll(S), IntOf(f)) # 0) <=> (f \in S)

\* A reader enumerated the five flags and all of them OR to 0x1f.
C3_Witness ==
    /\ Included("local-config.h")
    /\ last.op = "enumerate" /\ last.arg = "dev_mode_flags"
    /\ Len(last.res.value) = 5
    /\ OrAll(FlagNames) = 31

Contains(s, sub) ==
    \E i \in 1..(Len(s) - Len(sub) + 1) : SubSeq(s, i, i + Len(sub) - 1) = sub

Separators == {" ", "\n", ";"}

\* t stands at position i of s; as a shell word when wordy.
At(s, i, t, wordy) ==
    /\ i + Len(t) - 1 <= Len(s)
    /\ SubSeq(s, i, i + Len(t) - 1) = t
    /\ wordy => /\ i = 1 \/ SubSeq(s, i - 1, i - 1) \in Separators
                /\ \/ i + Len(t) > Len(s)
                   \/ SubSeq(s, i + Len(t), i + Len(t)) \in Separators

Positions(s, t, wordy) == {i \in 1..Len(s) : At(s, i, t, wordy)}

\* Every close has its own earlier open and every open is closed.
Nested(s, open, close, wordy) ==
    LET O == Positions(s, open, wordy)
        C == Positions(s, close, wordy)
    IN  /\ Cardinality(O) = Cardinality(C)
        /\ \A c \in C :
               Cardinality({o \in O : o < c}) >= Cardinality({d \in C : d <= c})

\* The text ends with the } that closes its last function (and a newline).
EndsWithClosingBrace(s) ==
    /\ Len(s) >= 2
    /\ SubSeq(s, Len(s) - 1, Len(s)) = "}\n"

WellFormedTemplate(s) ==
    /\ Positions(s, "{", FALSE) # {}
    /\ Nested(s, "{", "}", FALSE)
    /\ Nested(s, "if", "fi", TRUE)
    /\ Nested(s, "while", "done", TRUE)
    /\ EndsWithClosingBrace(s)

RootTest == "if [ \"$(id -u)\" != \"0\" ]; then"

\* C4: once shell-utils.h is included, every shell-function template
\* resolves to text whose braces, if/fi and while/done are matched and
\* which ends with a closing brace; CHECK_ROOT contains the root test.
C4_TemplatesBalanced ==
    Included("shell-utils.h") =>
        /\ \A t \in TemplateNames :
               LET r == resolveTemplate(macros, t)
               IN  r.ok /\ WellFormedTemplate(r.value)
        /\ Contains(resolveTemplate(macros, "CHECK_ROOT").value, RootTest)

\* A reader resolved CHECK_ROOT and got the text with the root test in it.
C4_Witness ==
    /\ last.op = "resolveTemplate" /\ last.arg = "CHECK_ROOT" /\ last.res.ok
    /\ Contains(last.res.value, RootTest)
    /\ WellFormedTemplate(last.res.value)

\* The names the directives ds define.
DefinedNames(ds) ==
    {ds[i].name : i \in {j \in 1..Len(ds) : ds[j].kind = "define"}}

\* The keys of the registry: every name a header defines.
RegistryKeys == UNION {DefinedNames(Header(h)) : h \in HeaderFiles}

UnknownNames == {"does-not-exist", "ARCH_AMD64", "color_red", "KSU"}

NotFound == [ok |-> FALSE, value |-> <<>>, err |-> "NotFoundError"]

C7_RegistryImmutable ==
    [][ /\ AllIncluded => (macros' = macros /\ conflicts' = conflicts)
        /\ last' # last => macros' = macros
        /\ (last.init /\ last'.init /\ last'.op = last.op /\ last'.arg = last.arg)
               => last'.res = last.res ]_vars

\* The second reader looked COLOR_RED up in the complete registry, which
\* two headers had defined.
C7_Witness ==
    /\ AllIncluded
    /\ "COLOR_RED" \in conflicts
    /\ last.reader = 2 /\ last.op = "lookup" /\ last.arg = "COLOR_RED"
    /\ last.init /\ last.res.ok

\* C8: every entry of every enumeration is found by lookup with the value
\* enumerated, and the names of one enumeration are pairwise distinct.
C8_EnumerateLookupRoundTrip ==
    \A g \in GroupNames :
        LET e == enumerate(macros, g)
        IN  /\ \A i \in 1..Len(e) :
                   lookup(macros, e[i].name).ok
                   /\ lookup(macros, e[i].name).value = e[i].value
            /\ \A i, j \in 1..Len(e) : i # j => e[i].name # e[j].name

\* C9: once kernelsu-module.h and local-config.h are included, the
\* permission strings read as octal equal the numeric permissions, the
\* WebUI port string read as decimal equals the numeric port, the module
\* config file is module.prop, and BUSYBOX_PATH is KSU_BIN_PATH/busybox.
C9_HeadersAgree ==
    (Included("kernelsu-module.h") /\ Included("local-config.h")) =>
        /\ ReadNumber(StrOf("DEFAULT_DIR_PERM"), 8) = IntOf("PERM_DIRECTORY")
        /\ ReadNumber(StrOf("DEFAULT_EXEC_PERM"), 8) = IntOf("PERM_EXECUTABLE")
        /\ ReadNumber(StrOf("DEFAULT_FILE_PERM"), 8) = IntOf("PERM_READABLE")
        /\ ReadNumber(StrOf("WEBUI_PORT_DEFAULT"), 10) = IntOf("WEBUI_DEFAULT_PORT")
        /\ StrOf("MODULE_CONFIG_FILE") = StrOf("MODULE_PROP")
        /\ StrOf("BUSYBOX_PATH") = StrOf("KSU_BIN_PATH") \o "/busybox"

\* A reader enumerated the permissions of both headers: eight entries, the
\* directory permission being 0755 = 493.
C9_Witness ==
    /\ Included("kernelsu-module.h") /\ Included("local-config.h")
    /\ last.op = "enumerate" /\ last.arg = "permissions"
    /\ Len(last.res.value) = 8
    /\ IntOf("PERM_DIRECTORY") = 493

\* C10: free is called on a block at most once and never on a block that
\* is not allocated, a pointer variable never refers to a freed block, and
\* after SAFE_FREE(v) the variable v is NULL; SAFE_FREE of a NULL variable
\* calls free on nothing.
C10_SafeFreeAtMostOnce ==
    /\ \A b \in Blocks : mem.freeCalls[b] <= 1 /\ mem.heap[b] # "double-freed"
    /\ \A v \in PtrVars : mem.ptr[v] # NULL => mem.heap[mem.ptr[v]] = "allocated"
    /\ lastOp.op = "SAFE_FREE" => mem.ptr[lastOp.var] = NULL
    /\ (lastOp.op = "SAFE_FREE" /\ lastOp.before # NULL) =>
           mem.freeCalls[lastOp.before] = 1

\* SAFE_FREE was called on a variable that an earlier SAFE_FREE had reset:
\* a block is freed, once, and the call did nothing.
C10_Witness ==
    /\ lastOp.op = "SAFE_FREE" /\ lastOp.before = NULL
    /\ mem.ptr[lastOp.var] = NULL
    /\ \E b \in Blocks : mem.heap[b] = "freed" /\ mem.freeCalls[b] = 1
    /\ \A b \in Blocks : mem.heap[b] # "allocated"
=============================================================================
